---------------------------- MODULE Spec2Model ----------------------------
(***************************************************************************)
(* Model of telegram/ext/messagequeue.py: DelayQueue (a worker thread that *)
(* processes promises from a FIFO under a sliding-window throughput limit) *)
(* and MessageQueue (a registry of named delay queues).                    *)
(*                                                                         *)
(* Time is an integer clock.  time.perf_counter() is read once per loop    *)
(* iteration of DelayQueue.run; its resolution is taken to be finer than   *)
(* one iteration, so each reading is at least one tick later than every    *)
(* earlier event.  time.sleep(d) returns no earlier than d after the       *)
(* reading it was computed from, and may return later.                     *)
(***************************************************************************)
EXTENDS Integers, Sequences, FiniteSets, TLC

\* ------------------------------------------------------------------ bounds
MaxTasks == 5       \* promises that exist (one per put call)
MaxPuts  == 3       \* put calls made by producers where stops and errors are explored
MaxRoutes == 1      \* put calls made through the registry
MaxTime  == 12      \* the clock is not read once it has reached MaxTime
MaxOps   == 2       \* calls made by the controlling thread (stop, add, ...)
MaxBurst == 3       \* largest burst_limit configured
TimeLimit == 4      \* time_limit of a delay queue, in clock ticks
MaxJitter == 1      \* largest extra delay of a clock reading or a dispatch

\* --------------------------------------------------------------- constants
Sentinel == 0       \* the None that stop() puts into the queue
DEFAULT_QUEUE == "default_delay_queue"
GROUP_QUEUE == "group_delay_queue"
EXTRA_QUEUE == "extra_delay_queue"
NoParent == "None"

\* The three DelayQueue objects: D and G are the two built by
\* MessageQueue.__init__, X is one built by the user (DelayQueue.__init__).
Lim == {"D", "G", "X"}
Task == 1..MaxTasks

VARIABLES
    \* configuration, fixed by the constructors
    burst_limit,    \* [Lim -> Nat]            self.burst_limit
    time_limit,     \* [Lim -> Nat]            self.time_limit (ticks)
    parent,         \* [Lim -> Lim \cup {NoParent}]
    name,           \* [Lim -> STRING]         Thread name
    exc_route,      \* [Lim -> {"default","handler"}]
    autostart,      \* [Lim -> BOOLEAN]        the constructor's autostart
    jitter,         \* set of extra ticks a clock reading or a dispatch may take
    quota,          \* number of put calls the producers make
    outcomes,       \* subset of BOOLEAN: whether the callables put may raise
    \* DelayQueue state
    queue,          \* [Lim -> Seq(Task \cup {Sentinel})]   self._queue
    exit_req,       \* [Lim -> BOOLEAN]        self.__exit_req
    thread,         \* [Lim -> {"initial","alive","dead"}]  threading.Thread
    pc,             \* [Lim -> {"get","sleep","process","forward"}] position in run()
    promise,        \* [Lim -> Task \cup {Sentinel}]  local of run()
    times,          \* [Lim -> Seq(Int)]       local of run()
    wake,           \* [Lim -> Int]            end of the time.sleep in progress
    dispatcher,     \* [Lim -> BOOLEAN]        self.dispatcher is set
    clock,          \* time.perf_counter()
    \* producers: one put call per task
    puts,           \* [Task -> record]
    \* MessageQueue state
    delay_queues,   \* Seq of <<name, Lim>>: the dict self._delay_queues, in order
    running,        \* self.running
    mq_dispatcher,  \* self.dispatcher is set
    \* the controlling thread: it calls stop() and the registry's methods
    ops,            \* number of calls it has made
    stop_todo,      \* Seq(Lim): delay queues still to be stopped by this call
    stop_pc,        \* "idle" | "begin" | "sentinel" | "join"
    stop_timeout,   \* BOOLEAN: the call passed a timeout
    stop_calls,     \* [Lim -> Nat]: DelayQueue.stop invocations so far
    stop_mark,      \* [Lim -> Int]: promises taken by the worker when stop was first invoked
    \* observations
    enqueued,       \* [Lim -> Seq(Task)]: order of self._queue.put(promise)
    dispatched,     \* [Lim -> Seq(<<Task, time>>)]: forwarded or executed
    executed,       \* [Lim -> Seq(<<Task, dispatcher set>>)]: promise.run()
    routed,         \* [Lim -> Seq(Task)]: self.exc_route(promise.exception)
    post_processed, \* [Lim -> Seq(Task)]: dispatcher.post_process_promise(promise)
    errors          \* set of <<operation, object, exception, thread state>> raised to callers

cfgVars  == <<burst_limit, time_limit, parent, name, exc_route, autostart, jitter, quota, outcomes>>
limVars  == <<queue, exit_req, thread, pc, promise, times, wake, dispatcher>>
mqVars   == <<delay_queues, running, mq_dispatcher>>
stopVars == <<ops, stop_todo, stop_pc, stop_timeout, stop_calls, stop_mark>>
logVars  == <<enqueued, dispatched, executed, routed, post_processed, errors>>
vars == <<cfgVars, limVars, clock, puts, mqVars, stopVars, logVars>>

\* ----------------------------------------------------------------- helpers
Max(a, b) == IF a >= b THEN a ELSE b

Last(s) == s[Len(s)]

RECURSIVE Count(_, _)
Count(s, x) == IF s = <<>> THEN 0
               ELSE (IF Head(s) = x THEN 1 ELSE 0) + Count(Tail(s), x)

IsPrefix(s, t) == Len(s) <= Len(t) /\ \A i \in 1..Len(s) : s[i] = t[i]

TasksOf(log) == [i \in 1..Len(log) |-> log[i][1]]
TimesOf(log) == [i \in 1..Len(log) |-> log[i][2]]

\* Thread.is_alive()
is_alive(l) == thread[l] = "alive"


\* Faulty variant: get takes the newest item.
QueueGetNewest(q) == [item |-> Last(q), rest |-> SubSeq(q, 1, Len(q) - 1)]

\* self._queue is a queue.Queue without maxsize, a FIFO: get (line 137) takes
\* the oldest item, put (lines 181, 212) adds at the tail and never blocks.
QueueGet(q) == [item |-> Head(q), rest |-> Tail(q)]

\* Faulty variant: put adds at the head.
QueuePutFirst(q, x) == <<x>> \o q

\* Faulty variant: put loses the item.
QueuePutDrop(q, x) == q

QueuePut(q, x) == Append(q, x)

\* Faulty variant: the test forgets the exit request.
NotRunningAliveOnly(l) == ~is_alive(l)

\* Line 207: the test DelayQueue.put makes before it accepts a promise.
NotRunning(l) == ~is_alive(l) \/ exit_req[l]

\* An uncaught exception, or the return at line 139, ends the thread.
Die(l) == thread' = [thread EXCEPT ![l] = "dead"]

\* ------------------------------------------------ DelayQueue.run: the window
\* Lines 145-152: the list of processing times after a promise was taken at now.
Window(ts, now, limit) ==
    LET t_delta == now - limit
    IN  IF ts # <<>> /\ t_delta > Last(ts)
        THEN <<now>>
        ELSE Append(SelectSeq(ts, LAMBDA t : t >= t_delta), now)

\* Faulty variant: the limit counts as hit one promise later.
LimitHitLate(ts, burst) == Len(ts) > burst

\* Line 153: the throughput limit was hit.
LimitHit(ts, burst) == Len(ts) >= burst

\* Faulty variant: no sleep.
SleepForNothing(ts, now, limit) == 0

\* Line 154: the argument of time.sleep; times[1] is the second element.
SleepFor(ts, now, limit) == ts[2] - (now - limit)

\* ------------------------------------------------- DelayQueue.run: the loop
\* Faulty variant: the worker never looks at the exit request.
ExitCheckNever(l) == FALSE

\* Line 138: the test the worker makes on whatever item it has taken.
ExitCheck(l) == exit_req[l]

\* Lines 137-154: take the next item; return if exit was requested; otherwise
\* read the clock, update the window and decide whether to sleep.  With
\* burst_limit = 1 the list has one element and times[1] raises IndexError.
WorkerGet(l) ==
    /\ is_alive(l) /\ pc[l] = "get" /\ queue[l] # <<>>
    /\ queue' = [queue EXCEPT ![l] = QueueGet(queue[l]).rest]
    /\ IF ExitCheck(l)
       THEN /\ Die(l)
            /\ UNCHANGED <<pc, promise, times, wake, clock>>
       ELSE \E dt \in jitter :
            LET now == clock + 1 + dt
                ts  == Window(times[l], now, time_limit[l])
            IN  /\ now <= MaxTime
                /\ clock' = now
                /\ promise' = [promise EXCEPT ![l] = QueueGet(queue[l]).item]
                /\ times' = [times EXCEPT ![l] = ts]
                /\ IF LimitHit(ts, burst_limit[l])
                   THEN IF Len(ts) < 2
                        THEN Die(l) /\ UNCHANGED <<pc, wake>>
                        ELSE /\ pc' = [pc EXCEPT ![l] = "sleep"]
                             /\ wake' = [wake EXCEPT ![l] =
                                           now + SleepFor(ts, now, time_limit[l])]
                             /\ UNCHANGED thread
                   ELSE /\ pc' = [pc EXCEPT ![l] = "process"]
                        /\ UNCHANGED <<thread, wake>>
    /\ UNCHANGED <<cfgVars, exit_req, dispatcher, puts, mqVars, stopVars, logVars>>

\* Line 154: time.sleep returns, at the requested time or later.
WorkerWake(l) ==
    /\ is_alive(l) /\ pc[l] = "sleep"
    /\ clock' = Max(clock, wake[l])
    /\ pc' = [pc EXCEPT ![l] = "process"]
    /\ UNCHANGED <<cfgVars, queue, exit_req, thread, promise, times, wake,
                   dispatcher, puts, mqVars, stopVars, logVars>>

\* Lines 157-159 and 204-208: a delay queue with a parent calls
\* parent.put(promise=promise); put raises (and the exception ends this
\* worker) if the promise is None or the parent is not running.
WorkerForwardCheck(l) ==
    /\ is_alive(l) /\ pc[l] = "process" /\ parent[l] # NoParent
    /\ \E late \in jitter : clock' = clock + late
    /\ IF promise[l] = Sentinel \/ NotRunning(parent[l])
       THEN Die(l) /\ UNCHANGED pc
       ELSE pc' = [pc EXCEPT ![l] = "forward"] /\ UNCHANGED thread
    /\ UNCHANGED <<cfgVars, queue, exit_req, promise, times, wake, dispatcher,
                   puts, mqVars, stopVars, logVars>>

\* Lines 212-213 in the parent, called from line 159: the promise goes to the
\* tail of the parent's queue.
WorkerForward(l) ==
    /\ is_alive(l) /\ pc[l] = "forward"
    /\ queue' = [queue EXCEPT ![parent[l]] = QueuePut(@, promise[l])]
    /\ enqueued' = [enqueued EXCEPT ![parent[l]] = Append(@, promise[l])]
    /\ dispatched' = [dispatched EXCEPT ![l] = Append(@, <<promise[l], clock>>)]
    /\ pc' = [pc EXCEPT ![l] = "get"]
    /\ UNCHANGED <<cfgVars, exit_req, thread, promise, times, wake, dispatcher,
                   clock, puts, mqVars, stopVars, executed, routed,
                   post_processed, errors>>

\* Faulty variant: the exception is looked at before the dispatcher.
SinkExceptionFirst(has_dispatcher, failed) ==
    IF failed THEN "exc_route"
    ELSE IF has_dispatcher THEN "dispatcher" ELSE "none"

\* Lines 163-166: where the outcome of a promise that was run goes.
Sink(has_dispatcher, failed) ==
    IF has_dispatcher THEN "dispatcher"
    ELSE IF failed THEN "exc_route" ELSE "none"

\* Faulty variant: the default exc_route swallows the exception.
ReraisesNever(route) == FALSE

\* Lines 112 and 186-188: whether the exc_route of the delay queue raises; the
\* default one re-raises the exception, a handler passed by the user returns.
Reraises(route) == route = "default"

\* Lines 160-166: a delay queue without parent runs the promise; the outcome
\* goes to the dispatcher if one is set, else an exception goes to exc_route.
\* The default exc_route (line 188) re-raises, which ends the worker.
\* None has no run(): AttributeError ends the worker.
WorkerExecute(l) ==
    /\ is_alive(l) /\ pc[l] = "process" /\ parent[l] = NoParent
    /\ \E late \in jitter : clock' = clock + late
    /\ IF promise[l] = Sentinel
       THEN Die(l) /\ UNCHANGED <<pc, logVars>>
       ELSE LET p == promise[l]
                sink == Sink(dispatcher[l], puts[p].raises)
            IN  /\ executed' = [executed EXCEPT ![l] = Append(@, <<p, dispatcher[l]>>)]
                /\ dispatched' = [dispatched EXCEPT ![l] = Append(@, <<p, clock'>>)]
                /\ post_processed' = [post_processed EXCEPT ![l] =
                                        IF sink = "dispatcher" THEN Append(@, p) ELSE @]
                /\ routed' = [routed EXCEPT ![l] =
                                IF sink = "exc_route" THEN Append(@, p) ELSE @]
                /\ IF sink = "exc_route" /\ Reraises(exc_route[l])
                   THEN Die(l) /\ UNCHANGED pc
                   ELSE pc' = [pc EXCEPT ![l] = "get"] /\ UNCHANGED thread
                /\ UNCHANGED <<enqueued, errors>>
    /\ UNCHANGED <<cfgVars, queue, exit_req, promise, times, wake, dispatcher,
                   puts, mqVars, stopVars>>

\* ------------------------------------------------------------ DelayQueue.put
\* The next put call is made for the lowest unused task.
NextTask == CHOOSE t \in Task : puts[t].state = "new" /\
                                \A u \in Task : u < t => puts[u].state # "new"

\* Lines 204-211: the call validates its arguments (the callers modelled pass
\* func, args and kwargs), raises DelayQueueError if the delay queue is not
\* running, and otherwise builds the promise.
PutCall(t, l, r) ==
    /\ puts[t].state = "new" /\ t <= quota
    /\ puts' = [puts EXCEPT ![t] =
                  [state   |-> IF NotRunning(l) THEN "DelayQueueError" ELSE "checked",
                   target  |-> l,
                   raises  |-> r,
                   thread  |-> thread[l],
                   stopped |-> stop_calls[l] > 0]]

\* Lines 212-213: the promise is put into the queue and returned.
PutPush(t) ==
    /\ puts[t].state = "checked"
    /\ queue' = [queue EXCEPT ![puts[t].target] = QueuePut(@, t)]
    /\ enqueued' = [enqueued EXCEPT ![puts[t].target] = Append(@, t)]
    /\ puts' = [puts EXCEPT ![t].state = "queued"]
    /\ UNCHANGED <<cfgVars, exit_req, thread, pc, promise, times, wake, dispatcher,
                   clock, mqVars, stopVars, dispatched, executed, routed,
                   post_processed, errors>>

\* A producer thread calls DelayQueue.put(func, args, kwargs) on l.
Put(l) ==
    /\ \E t \in Task : puts[t].state = "new"
    /\ \E r \in outcomes : PutCall(NextTask, l, r)
    /\ UNCHANGED <<cfgVars, limVars, clock, mqVars, stopVars, logVars>>


\* ----------------------------------------------------------- DelayQueue.stop
\* Promises the worker of l has taken from its queue and kept.
Taken(l) == Len(dispatched[l]) +
            (IF is_alive(l) /\ pc[l] \in {"sleep", "process", "forward"} THEN 1 ELSE 0)

\* Faulty variant: stop() flips the flag.
ExitRequestFlip(old) == ~old

\* Line 180: the value stop() gives self.__exit_req.
ExitRequest(old) == TRUE

\* Line 180: the exit request.
StopBegin(l) ==
    /\ exit_req' = [exit_req EXCEPT ![l] = ExitRequest(@)]
    /\ stop_calls' = [stop_calls EXCEPT ![l] = @ + 1]
    /\ stop_mark' = [stop_mark EXCEPT ![l] = IF stop_calls[l] = 0 THEN Taken(l) ELSE @]
    /\ stop_pc' = "sentinel"

\* The controlling thread calls DelayQueue.stop(timeout) on l.
DelayQueueStop(l, to) ==
    /\ stop_pc = "idle" /\ ops < MaxOps
    /\ ops' = ops + 1
    /\ stop_todo' = <<l>>
    /\ stop_timeout' = to
    /\ StopBegin(l)
    /\ UNCHANGED <<cfgVars, queue, thread, pc, promise, times, wake, dispatcher,
                   clock, puts, mqVars, logVars>>

\* Line 180 of the next DelayQueue.stop made by the loop of MessageQueue.stop.
StopNext ==
    /\ stop_pc = "begin"
    /\ StopBegin(Head(stop_todo))
    /\ UNCHANGED <<cfgVars, queue, thread, pc, promise, times, wake, dispatcher,
                   clock, puts, mqVars, ops, stop_todo, stop_timeout, logVars>>

\* Faulty variant: stop() puts nothing into the queue.
StopPutNothing(q) == q

\* Line 181: the queue after stop() has put None into it.
StopPut(q) == QueuePut(q, Sentinel)

\* Line 181: None is put into the queue.
StopSentinel ==
    /\ stop_pc = "sentinel"
    /\ queue' = [queue EXCEPT ![Head(stop_todo)] = StopPut(@)]
    /\ stop_pc' = "join"
    /\ UNCHANGED <<cfgVars, exit_req, thread, pc, promise, times, wake, dispatcher,
                   clock, puts, mqVars, ops, stop_todo, stop_timeout, stop_calls,
                   stop_mark, logVars>>

\* Line 183: Thread.join(timeout) raises RuntimeError for a thread that was
\* never started; otherwise it returns when the thread has ended or, if a
\* timeout was given, when the timeout elapses.
StopJoin ==
    /\ stop_pc = "join"
    /\ LET l == Head(stop_todo)
       IN  IF thread[l] = "initial"
           THEN /\ errors' = errors \cup {<<"stop", l, "RuntimeError", thread[l]>>}
                /\ stop_todo' = <<>>
                /\ stop_pc' = "idle"
           ELSE /\ thread[l] = "dead" \/ stop_timeout
                /\ stop_todo' = Tail(stop_todo)
                /\ stop_pc' = IF Tail(stop_todo) = <<>> THEN "idle" ELSE "begin"
                /\ UNCHANGED errors
    /\ UNCHANGED <<cfgVars, limVars, clock, puts, mqVars, ops, stop_timeout,
                   stop_calls, stop_mark, enqueued, dispatched, executed, routed,
                   post_processed>>

\* ------------------------------------------------------------- MessageQueue
Names == {DEFAULT_QUEUE, GROUP_QUEUE, EXTRA_QUEUE}

\* self._delay_queues as a sequence of <<name, delay queue>> in insertion order.
Keys(dq) == {dq[i][1] : i \in 1..Len(dq)}
Values(dq) == [i \in 1..Len(dq) |-> dq[i][2]]
Lookup(dq, n) == dq[CHOOSE i \in 1..Len(dq) : dq[i][1] = n][2]

\* dict[n] = l: a present key keeps its place, a new key goes last.
SetItem(dq, n, l) ==
    IF n \in Keys(dq)
    THEN [i \in 1..Len(dq) |-> IF dq[i][1] = n THEN <<n, l>> ELSE dq[i]]
    ELSE Append(dq, <<n, l>>)

\* Faulty variant: pop leaves the mapping as it is.
PopNothing(dq, n) == dq

\* dict.pop(n) for a present key.
Pop(dq, n) == SelectSeq(dq, LAMBDA e : e[1] # n)

\* Faulty variant: an added delay queue is never started.
NeedsStartNever(x) == FALSE

\* Line 299: whether add_delay_queue starts the delay queue.
NeedsStart(x) == running /\ ~is_alive(x)

\* Lines 296-300: MessageQueue.add_delay_queue.  Thread.start raises
\* RuntimeError for a thread that was started before.
add_delay_queue(x) ==
    /\ stop_pc = "idle" /\ ops < MaxOps
    /\ ops' = ops + 1
    /\ delay_queues' = SetItem(delay_queues, name[x], x)
    /\ dispatcher' = [dispatcher EXCEPT ![x] = IF mq_dispatcher THEN TRUE ELSE @]
    /\ IF NeedsStart(x)
       THEN IF thread[x] = "initial"
            THEN thread' = [thread EXCEPT ![x] = "alive"] /\ UNCHANGED errors
            ELSE errors' = errors \cup {<<"add", x, "RuntimeError", thread[x]>>} /\ UNCHANGED thread
       ELSE UNCHANGED <<thread, errors>>
    /\ UNCHANGED <<cfgVars, queue, exit_req, pc, promise, times, wake, clock, puts,
                   running, mq_dispatcher, stop_todo, stop_pc, stop_timeout,
                   stop_calls, stop_mark, enqueued, dispatched, executed, routed,
                   post_processed>>

\* Lines 312-314: MessageQueue.remove_delay_queue; dict.pop raises KeyError
\* for an absent name.
remove_delay_queue(n, to) ==
    /\ stop_pc = "idle" /\ ops < MaxOps
    /\ ops' = ops + 1
    /\ IF n \notin Keys(delay_queues)
       THEN /\ errors' = errors \cup {<<"remove", n, "KeyError", "absent">>}
            /\ UNCHANGED <<delay_queues, exit_req, stop_todo, stop_pc, stop_timeout,
                           stop_calls, stop_mark>>
       ELSE LET l == Lookup(delay_queues, n)
            IN  /\ delay_queues' = Pop(delay_queues, n)
                /\ UNCHANGED errors
                /\ IF running /\ is_alive(l)
                   THEN /\ stop_todo' = <<l>>
                        /\ stop_timeout' = to
                        /\ StopBegin(l)
                   ELSE UNCHANGED <<exit_req, stop_todo, stop_pc, stop_timeout,
                                    stop_calls, stop_mark>>
    /\ UNCHANGED <<cfgVars, queue, thread, pc, promise, times, wake, dispatcher,
                   clock, puts, running, mq_dispatcher, enqueued, dispatched,
                   executed, routed, post_processed>>

\* Thread.start on each delay queue in turn, up to the first that raises.
RECURSIVE StartAll(_, _)
StartAll(ls, th) ==
    IF ls = <<>> THEN [thread |-> th, ok |-> TRUE]
    ELSE IF th[Head(ls)] # "initial" THEN [thread |-> th, ok |-> FALSE]
    ELSE StartAll(Tail(ls), [th EXCEPT ![Head(ls)] = "alive"])

\* Lines 318-320: MessageQueue.start.
start ==
    /\ stop_pc = "idle" /\ ops < MaxOps
    /\ ops' = ops + 1
    /\ LET r == StartAll(Values(delay_queues), thread)
       IN  /\ thread' = r.thread
           /\ running' = IF r.ok THEN TRUE ELSE running
           /\ errors' = IF r.ok THEN errors
                        ELSE errors \cup {<<"start", "MessageQueue", "RuntimeError", "started">>}
    /\ UNCHANGED <<cfgVars, queue, exit_req, pc, promise, times, wake, dispatcher,
                   clock, puts, delay_queues, mq_dispatcher, stop_todo, stop_pc,
                   stop_timeout, stop_calls, stop_mark, enqueued, dispatched,
                   executed, routed, post_processed>>

\* Lines 330-331: MessageQueue.stop calls stop on each delay queue in turn.
stop(to) ==
    /\ stop_pc = "idle" /\ ops < MaxOps
    /\ ops' = ops + 1
    /\ stop_todo' = Values(delay_queues)
    /\ stop_timeout' = to
    /\ stop_pc' = IF delay_queues = <<>> THEN "idle" ELSE "begin"
    /\ UNCHANGED <<cfgVars, limVars, clock, puts, mqVars, stop_calls, stop_mark,
                   logVars>>

\* Line 347: MessageQueue.put; an absent name raises KeyError.
put(n) ==
    /\ \E t \in Task : puts[t].state = "new"
    /\ NextTask <= quota
    /\ IF n \in Keys(delay_queues)
       THEN \E r \in outcomes : PutCall(NextTask, Lookup(delay_queues, n), r)
       ELSE puts' = [puts EXCEPT ![NextTask].state = "KeyError",
                                 ![NextTask].target = n]
    /\ UNCHANGED <<cfgVars, limVars, clock, mqVars, stopVars, logVars>>

\* Line 356: MessageQueue.set_dispatcher.
set_dispatcher ==
    /\ stop_pc = "idle" /\ ops < MaxOps
    /\ ops' = ops + 1
    /\ mq_dispatcher' = TRUE
    /\ UNCHANGED <<cfgVars, limVars, clock, puts, delay_queues, running, stop_todo,
                   stop_pc, stop_timeout, stop_calls, stop_mark, logVars>>

\* Line 131: DelayQueue.set_dispatcher.
DelayQueueSetDispatcher(l) ==
    /\ stop_pc = "idle" /\ ops < MaxOps
    /\ ops' = ops + 1
    /\ dispatcher' = [dispatcher EXCEPT ![l] = TRUE]
    /\ UNCHANGED <<cfgVars, queue, exit_req, thread, pc, promise, times, wake,
                   clock, puts, mqVars, stop_todo, stop_pc, stop_timeout,
                   stop_calls, stop_mark, logVars>>


\* ---------------------------------------------------------- initial states
\* MessageQueue.__init__(autostart=mq_auto, error_handler=handler) builds D and
\* G (lines 257-285); DelayQueue.__init__(autostart=x_auto, name=x_name,
\* error_handler=handler) builds X (lines 97-122).
InitWith(mq_auto, x_auto, x_name, handler, bl, tl, jit, n, raise) ==
    /\ burst_limit = bl
    /\ time_limit = tl
    /\ parent = [l \in Lim |-> IF l = "G" THEN "D" ELSE NoParent]
    /\ name = [l \in Lim |-> IF l = "D" THEN DEFAULT_QUEUE
                             ELSE IF l = "G" THEN GROUP_QUEUE ELSE x_name]
    /\ exc_route = [l \in Lim |-> handler]
    /\ jitter = jit
    /\ quota = n
    /\ outcomes = raise
    /\ queue = [l \in Lim |-> <<>>]
    /\ exit_req = [l \in Lim |-> FALSE]
    /\ autostart = [l \in Lim |-> IF l = "X" THEN x_auto ELSE mq_auto]
    /\ thread = [l \in Lim |-> IF (l = "X" /\ x_auto) \/ (l # "X" /\ mq_auto)
                               THEN "alive" ELSE "initial"]
    /\ pc = [l \in Lim |-> "get"]
    /\ promise = [l \in Lim |-> Sentinel]
    /\ times = [l \in Lim |-> <<>>]
    /\ wake = [l \in Lim |-> 0]
    /\ dispatcher = [l \in Lim |-> FALSE]
    /\ clock = 0
    /\ puts = [t \in Task |-> [state |-> "new", target |-> NoParent, raises |-> FALSE,
                               thread |-> "initial", stopped |-> FALSE]]
    /\ delay_queues = << <<DEFAULT_QUEUE, "D">>, <<GROUP_QUEUE, "G">> >>
    /\ running = mq_auto
    /\ mq_dispatcher = FALSE
    /\ ops = 0
    /\ stop_todo = <<>>
    /\ stop_pc = "idle"
    /\ stop_timeout = FALSE
    /\ stop_calls = [l \in Lim |-> 0]
    /\ stop_mark = [l \in Lim |-> 0]
    /\ enqueued = [l \in Lim |-> <<>>]
    /\ dispatched = [l \in Lim |-> <<>>]
    /\ executed = [l \in Lim |-> <<>>]
    /\ routed = [l \in Lim |-> <<>>]
    /\ post_processed = [l \in Lim |-> <<>>]
    /\ errors = {}

\* ------------------------------------------- one delay queue and its callers
\* A delay queue X without parent (built with autostart=True), its producers,
\* and a thread that stops it and sets its dispatcher.
Init ==
    \E handler \in {"default", "handler"} :
        InitWith(FALSE, TRUE, EXTRA_QUEUE, handler,
                 [l \in Lim |-> 2], [l \in Lim |-> TimeLimit], {0}, MaxPuts, BOOLEAN)

Next ==
    \/ WorkerGet("X")
    \/ WorkerWake("X")
    \/ WorkerExecute("X")
    \/ Put("X")
    \/ \E t \in Task : PutPush(t)
    \/ DelayQueueSetDispatcher("X")
    \/ \E to \in BOOLEAN : DelayQueueStop("X", to)
    \/ StopSentinel
    \/ StopJoin

Spec == Init /\ [][Next]_vars

\* The same delay queue with its producers and a thread that only stops it.
NextStop ==
    \/ WorkerGet("X")
    \/ WorkerWake("X")
    \/ WorkerExecute("X")
    \/ Put("X")
    \/ \E t \in Task : PutPush(t)
    \/ \E to \in BOOLEAN : DelayQueueStop("X", to)
    \/ StopSentinel
    \/ StopJoin

SpecStop == Init /\ [][NextStop]_vars

\* The same delay queue with its producers and a thread that only sets its
\* dispatcher: the delay queue is never stopped.
NextSink ==
    \/ WorkerGet("X")
    \/ WorkerWake("X")
    \/ WorkerExecute("X")
    \/ Put("X")
    \/ \E t \in Task : PutPush(t)
    \/ DelayQueueSetDispatcher("X")

SpecSink == Init /\ [][NextSink]_vars

\* The same delay queue under fair scheduling: a worker thread that can take a
\* step eventually takes it, and a stop() call that has set the exit request
\* goes on to put None into the queue.  The promises do not raise.
InitLive ==
    InitWith(FALSE, TRUE, EXTRA_QUEUE, "handler",
             [l \in Lim |-> 2], [l \in Lim |-> TimeLimit], {0}, MaxPuts, {FALSE})

SpecLive ==
    /\ InitLive /\ [][Next]_vars
    /\ WF_vars(WorkerGet("X"))
    /\ WF_vars(WorkerWake("X"))
    /\ WF_vars(WorkerExecute("X"))
    /\ WF_vars(StopSentinel)


\* ------------------------------------------------ the throughput limit alone
\* A delay queue X without parent and with any burst_limit up to MaxBurst, and
\* producers that put promises (whose callables do not raise) at any time;
\* clock readings and dispatches may
\* each be late by up to MaxJitter ticks.
InitRate ==
    \E b \in 1..MaxBurst :
        InitWith(FALSE, TRUE, EXTRA_QUEUE, "handler",
                 [l \in Lim |-> b], [l \in Lim |-> TimeLimit], {0, MaxJitter}, MaxTasks,
                 {FALSE})

NextRate ==
    \/ WorkerGet("X")
    \/ WorkerWake("X")
    \/ WorkerExecute("X")
    \/ Put("X")
    \/ \E t \in Task : PutPush(t)

SpecRate == InitRate /\ [][NextRate]_vars

\* ------------------------------------------------- the two chained queues
\* The two delay queues of a MessageQueue built with autostart=True: G forwards
\* to its parent D, which runs the promises.  Producers put into either.  A
\* worker that is not scheduled lets the clock pass under the other's steps.
InitChain ==
    \E handler \in {"default", "handler"} :
        InitWith(TRUE, FALSE, EXTRA_QUEUE, handler,
                 [l \in Lim |-> IF l = "D" THEN MaxBurst ELSE 2],
                 [l \in Lim |-> TimeLimit], {0}, MaxPuts, {TRUE})

NextChain ==
    \/ \E l \in {"D", "G"} : WorkerGet(l)
    \/ \E l \in {"D", "G"} : WorkerWake(l)
    \/ WorkerForwardCheck("G")
    \/ WorkerForward("G")
    \/ WorkerExecute("D")
    \/ \E l \in {"D", "G"} : Put(l)
    \/ \E t \in Task : PutPush(t)

SpecChain == InitChain /\ [][NextChain]_vars

\* The chain under fair scheduling: a worker thread that can take a step
\* eventually takes it.  Nothing is assumed about the producers, who make two
\* put calls: enough for G to reach its throttling sleep, and few enough for
\* the clock to stay below MaxTime, so that no worker is held up by the end
\* of the clock.
InitChainLive ==
    \E handler \in {"default", "handler"} :
        InitWith(TRUE, FALSE, EXTRA_QUEUE, handler,
                 [l \in Lim |-> IF l = "D" THEN MaxBurst ELSE 2],
                 [l \in Lim |-> TimeLimit], {0}, 2, BOOLEAN)

SpecChainLive ==
    /\ InitChainLive /\ [][NextChain]_vars
    /\ \A l \in {"D", "G"} : WF_vars(WorkerGet(l)) /\ WF_vars(WorkerWake(l))
    /\ WF_vars(WorkerForwardCheck("G"))
    /\ WF_vars(WorkerForward("G"))
    /\ WF_vars(WorkerExecute("D"))

\* ------------------------------------------------------------ the registry
\* A MessageQueue with its two delay queues, a delay queue X built by the user
\* under a name of its own, producers that go
\* through MessageQueue.put, and a thread that calls the registry's methods
\* and stop() on X.  Fewer promises are put than burst_limit (MaxRoutes <
\* MaxBurst), so no worker reaches the throttling sleep of line 154.
InitRegistry ==
    \E mq_auto \in BOOLEAN, x_auto \in BOOLEAN :
        InitWith(mq_auto, x_auto, EXTRA_QUEUE, "handler",
                 [l \in Lim |-> MaxBurst], [l \in Lim |-> TimeLimit], {0}, MaxRoutes,
                 {FALSE})

NextRegistry ==
    \/ \E l \in Lim : WorkerGet(l)
    \/ WorkerForwardCheck("G")
    \/ WorkerForward("G")
    \/ \E l \in {"D", "X"} : WorkerExecute(l)
    \/ \E n \in Names : put(n)
    \/ \E t \in Task : PutPush(t)
    \/ add_delay_queue("X")
    \/ \E n \in Names, to \in BOOLEAN : remove_delay_queue(n, to)
    \/ start
    \/ \E to \in BOOLEAN : stop(to)
    \/ set_dispatcher
    \/ \E to \in BOOLEAN : DelayQueueStop("X", to)
    \/ StopNext
    \/ StopSentinel
    \/ StopJoin

SpecRegistry == InitRegistry /\ [][NextRegistry]_vars

\* The same MessageQueue with the calls that change the mapping only: delay
\* queues are added and removed while producers put and the workers run.
NextRemove ==
    \/ \E l \in Lim : WorkerGet(l)
    \/ WorkerForwardCheck("G")
    \/ WorkerForward("G")
    \/ \E l \in {"D", "X"} : WorkerExecute(l)
    \/ \E n \in Names : put(n)
    \/ \E t \in Task : PutPush(t)
    \/ add_delay_queue("X")
    \/ \E n \in Names, to \in BOOLEAN : remove_delay_queue(n, to)
    \/ StopSentinel
    \/ StopJoin

SpecRemove == InitRegistry /\ [][NextRemove]_vars

\* The same MessageQueue without its stop(): the registry is started, given a
\* dispatcher and changed, and the user stops X.
NextAdd ==
    \/ \E l \in Lim : WorkerGet(l)
    \/ WorkerForwardCheck("G")
    \/ WorkerForward("G")
    \/ \E l \in {"D", "X"} : WorkerExecute(l)
    \/ \E n \in Names : put(n)
    \/ \E t \in Task : PutPush(t)
    \/ add_delay_queue("X")
    \/ \E n \in Names, to \in BOOLEAN : remove_delay_queue(n, to)
    \/ start
    \/ set_dispatcher
    \/ \E to \in BOOLEAN : DelayQueueStop("X", to)
    \/ StopSentinel
    \/ StopJoin

SpecAdd == InitRegistry /\ [][NextAdd]_vars

\* The same MessageQueue, with the delay queue X built by the user under the
\* name of one of the registry's own delay queues.  No delay queue is removed:
\* a delay queue that is out of the mapping was replaced by add_delay_queue.
InitCollide ==
    \E mq_auto \in BOOLEAN, x_auto \in BOOLEAN, x_name \in {DEFAULT_QUEUE, GROUP_QUEUE} :
        InitWith(mq_auto, x_auto, x_name, "handler",
                 [l \in Lim |-> MaxBurst], [l \in Lim |-> TimeLimit], {0}, MaxRoutes,
                 {FALSE})

NextCollide ==
    \/ \E l \in Lim : WorkerGet(l)
    \/ WorkerForwardCheck("G")
    \/ WorkerForward("G")
    \/ \E l \in {"D", "X"} : WorkerExecute(l)
    \/ \E n \in Names : put(n)
    \/ \E t \in Task : PutPush(t)
    \/ add_delay_queue("X")
    \/ start
    \/ \E to \in BOOLEAN : stop(to)
    \/ StopNext
    \/ StopSentinel
    \/ StopJoin

SpecCollide == InitCollide /\ [][NextCollide]_vars

\* ------------------------------------------------------------------ claims
\* C1: once stop() has been invoked on a delay queue, every put call made on
\* it afterwards raises DelayQueueError and puts nothing into the queue,
\* whether the worker has ended or is still alive after a join that timed out.
C1_PutAfterStopFails ==
    \A t \in Task :
        puts[t].stopped =>
            /\ puts[t].state = "DelayQueueError"
            /\ Count(enqueued[puts[t].target], t) = 0
            /\ Count(queue[puts[t].target], t) = 0

\* A put call was refused on a delay queue whose stop was invoked and whose
\* worker was still alive.
C1_Witness ==
    \E t \in Task :
        /\ puts[t].stopped /\ puts[t].thread = "alive"
        /\ puts[t].state = "DelayQueueError"

\* Dispatches of a log that fall into the half-open interval [from, from + len).
InWindow(log, from, len) ==
    Cardinality({i \in 1..Len(log) : from <= log[i][2] /\ log[i][2] < from + len})

\* C2: the number of promises a delay queue dispatches within any half-open
\* interval of length time_limit never exceeds burst_limit.
C2_BurstLimit ==
    \A l \in Lim : \A from \in 0..clock :
        InWindow(dispatched[l], from, time_limit[l]) <= burst_limit[l]

\* More promises than burst_limit were dispatched, one after a sleep, and
\* some interval of length time_limit holds exactly burst_limit dispatches.
C2_Witness ==
    /\ Len(dispatched["X"]) > burst_limit["X"]
    /\ burst_limit["X"] = MaxBurst
    /\ \E from \in 0..clock :
         InWindow(dispatched["X"], from, time_limit["X"]) = burst_limit["X"]

\* C3: a delay queue dispatches promises in the order in which they were put
\* into its queue: the dispatched promises are always a prefix of the promises
\* put, so none is reordered, skipped or repeated.
C3_FifoDispatch ==
    \A l \in Lim : IsPrefix(TasksOf(dispatched[l]), enqueued[l])

\* Three promises put by concurrent producers in another order than the calls
\* were made, all dispatched, one of them after a throttling sleep.
C3_Witness ==
    /\ Len(dispatched["X"]) = 3
    /\ enqueued["X"][1] # 1
    /\ \E i \in 1..2 : dispatched["X"][i + 1][2] - dispatched["X"][i][2] >= TimeLimit - 1

\* The promises of a queue, without the None of stop().
Promises(q) == SelectSeq(q, LAMBDA x : x # Sentinel)

IsSuffix(s, t) ==
    Len(s) <= Len(t) /\ \A i \in 1..Len(s) : s[i] = t[Len(t) - Len(s) + i]

\* C4: a delay queue with a parent never runs a promise and never calls its
\* exc_route or dispatcher; each promise it dispatches goes once to the tail
\* of the parent's queue (the parent's queue is always the tail end of what
\* was put into it), and only the delay queue at the end of the chain runs
\* the promise and reports its outcome.
C4_ChildOnlyForwards ==
    \A l \in Lim :
        parent[l] # NoParent =>
            /\ executed[l] = <<>> /\ routed[l] = <<>> /\ post_processed[l] = <<>>
            /\ IsSuffix(Promises(queue[parent[l]]), enqueued[parent[l]])
            /\ \A i \in 1..Len(dispatched[l]) :
                 Count(enqueued[parent[l]], dispatched[l][i][1]) = 1
            /\ \A t \in Task : \A k \in Lim :
                 (puts[t].target = l /\ k # parent[l]) =>
                    /\ Count(TasksOf(executed[k]), t) = 0
                    /\ Count(routed[k], t) = 0
                    /\ Count(post_processed[k], t) = 0

\* A raising promise put into G was run by D, which called its exc_route,
\* while another promise waited in D's queue behind one forwarded by G.
C4_Witness ==
    /\ \E t \in Task : puts[t].target = "G" /\ Count(routed["D"], t) = 1
    /\ Len(queue["D"]) >= 2
    /\ puts[queue["D"][1]].target = "D" /\ puts[queue["D"][2]].target = "G"

\* Dispatches of promises put into delay queue l that fall into [from, from + len).
InWindowOf(log, l, from, len) ==
    Cardinality({i \in 1..Len(log) : /\ puts[log[i][1]].target = l
                                      /\ from <= log[i][2]
                                      /\ log[i][2] < from + len})

\* The time at which a log dispatched promise t.
TimeIn(log, t) == log[CHOOSE i \in 1..Len(log) : log[i][1] = t][2]

C6_ErrorsReportedOnce ==
    \A l \in Lim :
        parent[l] = NoParent =>
            /\ \A i \in 1..Len(executed[l]) :
                 LET t == executed[l][i][1]
                     d == executed[l][i][2]
                 IN  /\ Count(TasksOf(executed[l]), t) = 1
                     /\ Count(routed[l], t) = (IF puts[t].raises /\ ~d THEN 1 ELSE 0)
                     /\ Count(post_processed[l], t) = (IF d THEN 1 ELSE 0)
            /\ \A t \in Task :
                 Count(TasksOf(executed[l]), t) = 0 =>
                    Count(routed[l], t) = 0 /\ Count(post_processed[l], t) = 0

\* One raising promise went to exc_route and a later one to the dispatcher.
C6_Witness ==
    /\ Len(routed["X"]) = 1
    /\ \E t \in Task : puts[t].raises /\ Count(post_processed["X"], t) = 1

\* C7: when a promise run by a delay queue with the default exc_route and no
\* dispatcher raises, the worker thread ends, and every put call made on a
\* delay queue whose worker has ended raises DelayQueueError.
C7_DefaultHandlerEndsWorker ==
    /\ \A l \in Lim :
         (parent[l] = NoParent /\ exc_route[l] = "default" /\ routed[l] # <<>>)
            => thread[l] = "dead"
    /\ \A t \in Task :
         puts[t].thread = "dead" =>
            puts[t].state = "DelayQueueError" /\ Count(queue[puts[t].target], t) = 0

\* A put call was refused on a delay queue that was never stopped and whose
\* worker had ended on a re-raised exception.
C7_Witness ==
    \E t \in Task :
        /\ puts[t].thread = "dead" /\ ~puts[t].stopped
        /\ puts[t].state = "DelayQueueError"
        /\ exc_route[puts[t].target] = "default"
        /\ routed[puts[t].target] # <<>>

\* C9: stop() called again on a delay queue whose worker was started (it has
\* ended, or an earlier stop timed out) returns without error and changes
\* nothing observable: the exit request stays set, put stays refused, and no
\* promise is dispatched beyond the one the worker held when stop was first
\* invoked.
C9_StopIdempotent ==
    \A l \in Lim :
        stop_calls[l] >= 1 =>
            /\ exit_req[l]
            /\ NotRunning(l)
            /\ Len(dispatched[l]) <= stop_mark[l]
            /\ \A e \in errors : (e[1] = "stop" /\ e[2] = l) => e[4] = "initial"

\* stop() returned twice for a started delay queue whose worker is still
\* alive (both joins timed out).
C9_Witness ==
    /\ stop_calls["X"] = 2 /\ stop_pc = "idle"
    /\ thread["X"] = "alive"
    /\ errors = {}

\* C8: after stop() is invoked on a delay queue whose worker is alive, the
\* worker eventually ends (a worker waiting on an empty queue is woken by the
\* None), and after the invocation it dispatches at most the promise it
\* already held.
C8_StopEndsWorker ==
    /\ \A l \in Lim : (stop_calls[l] >= 1 /\ thread[l] = "alive") ~> (thread[l] = "dead")
    /\ [](\A l \in Lim : stop_calls[l] >= 1 => Len(dispatched[l]) <= stop_mark[l])

\* The worker ended on the None alone: stop was invoked while it waited on an
\* empty queue.
C8_Witness ==
    /\ stop_calls["X"] = 1 /\ thread["X"] = "dead"
    /\ enqueued["X"] = <<>> /\ queue["X"] = <<>>


\* add_delay_queue("X") returns: Thread.start does not raise.
AddReturns == add_delay_queue("X") /\ ~(NeedsStart("X") /\ thread["X"] # "initial")

\* X is registered under its own name.
Registered ==
    name["X"] \in Keys(delay_queues) /\ Lookup(delay_queues, name["X"]) = "X"

\* C10 as stated: whenever add_delay_queue returns on a running registry, the
\* added delay queue's worker is running, the queue is registered under its
\* name, and a put routed to that name is accepted by it.
C10_AddedQueueRuns ==
    [][(AddReturns /\ running) =>
          (Registered /\ is_alive("X") /\ ~NotRunning("X"))']_vars

\* C10 amended: add_delay_queue registers the delay queue under its name,
\* hands it the registry's dispatcher handle when there is one, and touches no
\* worker when the registry is not running; on a running registry, a delay
\* queue on which stop was never called and whose worker has not terminated
\* is running afterwards and accepts the puts routed to its name.
C10_AddRegistersAndStarts ==
    [][add_delay_queue("X") =>
          /\ Registered'
          /\ (mq_dispatcher => dispatcher'["X"])
          /\ (~running => thread' = thread)
          /\ (running /\ stop_calls["X"] = 0 /\ thread["X"] # "dead")
                => (is_alive("X") /\ ~NotRunning("X"))']_vars

\* A delay queue built without autostart was added to the running registry,
\* its worker runs, and a put routed to its name is in its queue.
C10_Witness ==
    /\ ~autostart["X"] /\ running /\ Registered /\ is_alive("X")
    /\ \E t \in Task : puts[t].state = "queued" /\ puts[t].target = "X"
                        /\ \E i \in 1..Len(queue["X"]) : queue["X"][i] = t

\* The state of every delay queue other than l: its queue, thread, exit
\* request, position, promise in flight and dispatcher.
Others(l) ==
    [k \in Lim \ {l} |-> <<queue[k], thread[k], exit_req[k], pc[k], promise[k],
                           dispatcher[k], stop_calls[k]>>]

\* C11: remove_delay_queue(n, timeout) of a registered name takes the name out
\* of the registry and leaves the other names as they were; if the registry is
\* running and the removed delay queue's worker is alive, it calls stop with
\* the given timeout on that delay queue (exit request, then None into its
\* queue, then join); no other delay queue and none of its pending promises is
\* touched.  For a name that is not registered it raises KeyError and changes
\* nothing.  A put routed to a name that is not registered raises KeyError.
C11_RemoveUnregistersAndStops ==
    /\ [][\A n \in Names, to \in BOOLEAN :
            remove_delay_queue(n, to) =>
                IF n \in Keys(delay_queues)
                THEN \E l \in Lim :
                         /\ l = Lookup(delay_queues, n)
                         /\ n \notin Keys(delay_queues')
                         /\ \A m \in Names \ {n} :
                              /\ (m \in Keys(delay_queues')) = (m \in Keys(delay_queues))
                              /\ m \in Keys(delay_queues) =>
                                   Lookup(delay_queues', m) = Lookup(delay_queues, m)
                         /\ (running /\ is_alive(l)) =>
                              /\ exit_req'[l] /\ stop_todo' = <<l>>
                              /\ stop_timeout' = to /\ stop_pc' = "sentinel"
                         /\ ~(running /\ is_alive(l)) =>
                              exit_req' = exit_req /\ stop_pc' = "idle"
                         /\ Others(l)' = Others(l)
                         /\ queue'[l] = queue[l] /\ errors' = errors
                ELSE /\ <<"remove", n, "KeyError", "absent">> \in errors'
                     /\ UNCHANGED <<cfgVars, limVars, clock, puts, mqVars, stop_todo,
                                    stop_pc, stop_timeout, stop_calls, stop_mark,
                                    enqueued, dispatched, executed, routed,
                                    post_processed>>]_vars
    /\ [][(StopSentinel \/ StopJoin) =>
            \E l \in Lim : /\ l = Head(stop_todo)
                            /\ Others(l)' = Others(l)
                            /\ delay_queues' = delay_queues]_vars
    /\ [][\A n \in Names :
            (put(n) /\ n \notin Keys(delay_queues)) =>
                /\ puts'[NextTask].state = "KeyError"
                /\ queue' = queue]_vars

\* The group queue was removed from the running registry while a promise
\* waited in the default queue: the group queue's worker has ended, its name
\* is gone, and the default queue still holds its promise.
C11_Witness ==
    /\ GROUP_QUEUE \notin Keys(delay_queues) /\ DEFAULT_QUEUE \in Keys(delay_queues)
    /\ stop_calls["G"] = 1 /\ thread["G"] = "dead" /\ stop_pc = "idle"
    /\ stop_calls["D"] = 0 /\ is_alive("D")
    /\ \E t \in Task : puts[t].state = "queued" /\ queue["D"] = <<t>>
    /\ errors = {}

\* The delay queues that self._delay_queues holds.
RegisteredQueues == {delay_queues[i][2] : i \in 1..Len(delay_queues)}

\* C12 as stated: after MessageQueue.start(), called in any state of the
\* registry, the worker of every registered delay queue is alive and
\* self.running is true.
C12_StartStartsAll ==
    [][start => /\ running'
                /\ \A l \in RegisteredQueues : thread'[l] = "alive"]_vars

\* C13 as stated: once MessageQueue.set_dispatcher was called, the outcome of
\* every promise run by a registered delay queue (the default queue included)
\* goes to the dispatcher, and exc_route is not called.
C13_DispatcherSupersedes ==
    [][\A l \in RegisteredQueues :
          (WorkerExecute(l) /\ mq_dispatcher /\ promise[l] # Sentinel) =>
              /\ post_processed'[l] = Append(post_processed[l], promise[l])
              /\ routed'[l] = routed[l]]_vars

\* ------------------------------------------------------- a burst at time 0
\* The delay queue X (burst_limit MaxBurst, started, handler given) after
\* MaxTasks put calls, made one after the other, have returned and before the
\* worker has taken the first promise: SpecRate reaches this state.
InitBurst ==
    /\ burst_limit = [l \in Lim |-> MaxBurst]
    /\ time_limit = [l \in Lim |-> TimeLimit]
    /\ parent = [l \in Lim |-> IF l = "G" THEN "D" ELSE NoParent]
    /\ name = [l \in Lim |-> IF l = "D" THEN DEFAULT_QUEUE
                             ELSE IF l = "G" THEN GROUP_QUEUE ELSE EXTRA_QUEUE]
    /\ exc_route = [l \in Lim |-> "handler"]
    /\ jitter = {0, MaxJitter}
    /\ quota = MaxTasks
    /\ outcomes = {FALSE}
    /\ queue = [l \in Lim |-> IF l = "X" THEN [t \in Task |-> t] ELSE <<>>]
    /\ exit_req = [l \in Lim |-> FALSE]
    /\ autostart = [l \in Lim |-> l = "X"]
    /\ thread = [l \in Lim |-> IF l = "X" THEN "alive" ELSE "initial"]
    /\ pc = [l \in Lim |-> "get"]
    /\ promise = [l \in Lim |-> Sentinel]
    /\ times = [l \in Lim |-> <<>>]
    /\ wake = [l \in Lim |-> 0]
    /\ dispatcher = [l \in Lim |-> FALSE]
    /\ clock = 0
    /\ puts = [t \in Task |-> [state |-> "queued", target |-> "X", raises |-> FALSE,
                               thread |-> "alive", stopped |-> FALSE]]
    /\ delay_queues = << <<DEFAULT_QUEUE, "D">>, <<GROUP_QUEUE, "G">> >>
    /\ running = FALSE
    /\ mq_dispatcher = FALSE
    /\ ops = 0
    /\ stop_todo = <<>>
    /\ stop_pc = "idle"
    /\ stop_timeout = FALSE
    /\ stop_calls = [l \in Lim |-> 0]
    /\ stop_mark = [l \in Lim |-> 0]
    /\ enqueued = [l \in Lim |-> IF l = "X" THEN [t \in Task |-> t] ELSE <<>>]
    /\ dispatched = [l \in Lim |-> <<>>]
    /\ executed = [l \in Lim |-> <<>>]
    /\ routed = [l \in Lim |-> <<>>]
    /\ post_processed = [l \in Lim |-> <<>>]
    /\ errors = {}

NextBurst ==
    \/ WorkerGet("X")
    \/ WorkerWake("X")
    \/ WorkerExecute("X")

SpecBurst == InitBurst /\ [][NextBurst]_vars

\* The state InitBurst describes, as SpecRate reaches it.
BurstQueued ==
    /\ burst_limit["X"] = MaxBurst /\ clock = 0
    /\ queue["X"] = [t \in Task |-> t] /\ enqueued["X"] = queue["X"]
    /\ dispatched["X"] = <<>> /\ pc["X"] = "get"

\* C14 as stated: with burst_limit B (3) and MaxTasks (5) promises put at time
\* 0, the promises run in the order 1, 2, ..., the first B of them without a
\* throttling sleep, and the later ones no earlier than one time_limit after
\* time 0.
C14_BurstOfThree ==
    /\ IsPrefix(TasksOf(dispatched["X"]), [t \in Task |-> t])
    /\ pc["X"] = "sleep" => promise["X"] > burst_limit["X"]
    /\ \A i \in 1..Len(dispatched["X"]) :
         i > burst_limit["X"] => dispatched["X"][i][2] >= time_limit["X"]

\* C15 as stated: a delay queue with burst_limit 1 dispatches the promises put
\* into it one at a time, in the order put and at least one time_limit apart,
\* and its worker keeps running.
C15_BurstOneSerial ==
    burst_limit["X"] = 1 =>
        /\ thread["X"] = "alive"
        /\ IsPrefix(TasksOf(dispatched["X"]), enqueued["X"])
        /\ \A i \in 1..Len(dispatched["X"]) - 1 :
             dispatched["X"][i + 1][2] - dispatched["X"][i][2] >= time_limit["X"]

\* Promises the worker of l took from its queue and neither dispatched nor
\* holds: the queue is a FIFO, so what was taken is what was put minus what
\* is still queued.
Discarded(l) == Len(enqueued[l]) - Len(Promises(queue[l])) - Taken(l)

C17_NoLossNoDuplication ==
    /\ \A t \in Task :
         (puts[t].state = "queued" /\ \A l \in Lim : thread[l] # "dead")
            ~> \/ Count(TasksOf(executed["D"]), t) = 1
               \/ \E l \in Lim : thread[l] = "dead"
    /\ [](\A t \in Task :
            /\ Count(TasksOf(executed["D"]), t) <= 1
            /\ Count(TasksOf(executed["G"]), t) = 0
            /\ Count(TasksOf(executed["D"]), t) = 1 => puts[t].state = "queued")

\* Two promises put into G were run by D, the second one forwarded after G's
\* throttling sleep.
C17_Witness ==
    /\ Len(executed["D"]) = 2 /\ Len(dispatched["G"]) = 2
    /\ dispatched["G"][2][2] - dispatched["G"][1][2] >= time_limit["G"]
    /\ \A l \in Lim : thread[l] # "dead"


\* ------------------------------------------------------------------ C18
\* C18: a put call never pushes its promise after the exit request of the
\* delay queue was set, so no promise that put returned lies behind the None
\* of stop() in the queue of a worker that has ended.
C18_NoHandleBehindSentinel ==
    /\ [][\A t \in Task : PutPush(t) => ~exit_req[puts[t].target]]_vars
    /\ [](\A l \in Lim : \A i, j \in 1..Len(queue[l]) :
            (thread[l] = "dead" /\ i < j /\ queue[l][i] = Sentinel)
               => queue[l][j] = Sentinel)


\* ------------------------------------------------------------------ C19
\* C19: the worker of a delay queue that has a parent ends only at line 139,
\* having taken an item while its own exit request was set; it never ends
\* while forwarding a promise to its parent, whatever was done to the parent.
C19_ChildEndsOnlyOnExitRequest ==
    [][\A l \in Lim :
         (parent[l] # NoParent /\ is_alive(l) /\ thread'[l] = "dead")
            => (exit_req[l] /\ pc[l] = "get")]_vars


\* ------------------------------------------------------------------ C20
\* C20: with no delay queue removed, every delay queue of the registry whose
\* worker runs is a value of the mapping, also after add_delay_queue was
\* called with a delay queue whose name is already a key; so the stop() of
\* the registry reaches every running worker.
C20_NoRunningQueueOutsideRegistry ==
    \A l \in {"D", "G"} : is_alive(l) => l \in RegisteredQueues

============================================================================
